---- MODULE Spec2Model ----
(***************************************************************************)
(* A model of src/preprocessing.py: the text-cleaning stages load_data,   *)
(* lowercase, replace_text and tokenize, the wrapper preprocess and the   *)
(* script entry point that writes cleaned.csv.                            *)
(*                                                                         *)
(* A text is a sequence of characters, each character a one-element       *)
(* string.  Two characters outside ASCII are named by their code points:  *)
(* "U+0130" (capital I with dot above) and "U+0307" (combining dot        *)
(* above), because str.lower() maps the first to "i" followed by the      *)
(* second.                                                                 *)
(*                                                                         *)
(* Series.str.replace is modelled with the pattern used as a regular      *)
(* expression (re.sub on every non-null value), which is what pandas 1.x  *)
(* does when it is handed a compiled pattern.                              *)
(***************************************************************************)
EXTENDS Integers, Sequences, FiniteSets, TLC

\* ------------------------------------------------------------------------
\* Bounds of the checked input space
\* ------------------------------------------------------------------------

\* longest text enumerated character by character
MaxLen == 3

\* most bracket fragments concatenated into one text
MaxParts == 4

\* most rows of an enumerated input file
MaxRows == 2

\* ------------------------------------------------------------------------
\* Characters and the classes the patterns use
\* ------------------------------------------------------------------------

LowerLetters ==
    <<"a", "b", "c", "d", "e", "f", "g", "h", "i", "j", "k", "l", "m",
      "n", "o", "p", "q", "r", "s", "t", "u", "v", "w", "x", "y", "z">>

UpperLetters ==
    <<"A", "B", "C", "D", "E", "F", "G", "H", "I", "J", "K", "L", "M",
      "N", "O", "P", "Q", "R", "S", "T", "U", "V", "W", "X", "Y", "Z">>

Range(f) == {f[i] : i \in DOMAIN f}

\* \d: the decimal digits
DigitChars == {"0", "1", "2", "3", "4", "5", "6", "7", "8", "9"}

\* \w: letters, digits and the underscore; U+0130 is a letter, the combining
\* mark U+0307 is not
WordChars ==
    Range(LowerLetters) \cup Range(UpperLetters) \cup DigitChars
        \cup {"_", "U+0130"}

SignChars == {"+", "-"}

Newline == "\n"

Punctuation ==
    {"<", ">", "$", "@", "[", "]", "?", "/", ":", "=", ",", "!", ".", "U+0307"}

Whitespace == {" ", Newline}

Chars == WordChars \cup SignChars \cup Punctuation \cup Whitespace

\* `.` without re.DOTALL: every character but the newline
DotChars == Chars \ {Newline}

AsciiChars == Chars \ {"U+0130", "U+0307"}

\* ------------------------------------------------------------------------
\* The six patterns of replace_text.  Each operator gives, for a text s and
\* a start position i, the position of the last character of the match the
\* backtracking matcher finds there, or 0 when the pattern does not match at
\* i.  No pattern matches the empty string.
\* ------------------------------------------------------------------------

NoMatch == 0

\* `.*?c` from position k: the lazy quantifier first tries the closing
\* character, and only then consumes one more character that `.` accepts
RECURSIVE LazyDotUntil(_, _, _)
LazyDotUntil(s, k, c) ==
    IF k > Len(s) THEN NoMatch
    ELSE IF s[k] = c THEN k
    ELSE IF s[k] \notin DotChars THEN NoMatch
    ELSE LazyDotUntil(s, k + 1, c)

\* a greedy run `X+` / `X*` from position k: the position of the last
\* character of the run, k - 1 when the run is empty
RECURSIVE GreedyRun(_, _, _)
GreedyRun(s, k, class) ==
    IF k <= Len(s) /\ s[k] \in class THEN GreedyRun(s, k + 1, class) ELSE k - 1

\* the greedy run gives characters back one at a time until c follows it:
\* the last position in lo..hi that holds c
RECURSIVE BacktrackTo(_, _, _, _)
BacktrackTo(s, hi, lo, c) ==
    IF hi < lo THEN NoMatch
    ELSE IF s[hi] = c THEN hi
    ELSE BacktrackTo(s, hi - 1, lo, c)

\* r'<.*>': the tag pattern with a greedy quantifier
html_greedy(s, i) ==
    IF s[i] = "<"
    THEN BacktrackTo(s, GreedyRun(s, i + 1, DotChars), i + 1, ">")
    ELSE NoMatch

\* html_re = r'<.*?>'
html_re(s, i) ==
    IF s[i] = "<" THEN LazyDotUntil(s, i + 1, ">") ELSE NoMatch

\* latex_re = r'\$.*?\$'
latex_re(s, i) ==
    IF s[i] = "$" THEN LazyDotUntil(s, i + 1, "$") ELSE NoMatch

\* r'\\n': a backslash followed by the letter n
newline_escaped(s, i) ==
    IF s[i] = "\\" /\ i + 1 <= Len(s) /\ s[i + 1] = "n" THEN i + 1 ELSE NoMatch

\* newline_re = r'\n'
newline_re(s, i) ==
    IF s[i] = Newline THEN i ELSE NoMatch

\* r'@[a-z0-9_]+': the mention pattern with lowercase letters only
user_lowercase_only(s, i) ==
    IF s[i] = "@"
    THEN LET e == GreedyRun(s, i + 1, WordChars \ Range(UpperLetters))
         IN  IF e > i THEN e ELSE NoMatch
    ELSE NoMatch

\* user_re = r'@\w+'
user_re(s, i) ==
    IF s[i] = "@"
    THEN LET e == GreedyRun(s, i + 1, WordChars)
         IN  IF e > i THEN e ELSE NoMatch
    ELSE NoMatch

\* r'[+-]\d+': the number pattern with the sign required
digits_signed_only(s, i) ==
    LET e == GreedyRun(s, i + 1, DigitChars)
    IN  IF s[i] \in SignChars /\ e > i THEN e ELSE NoMatch

\* digits_re = r'[+-]?\d+': the optional sign is taken when present; when no
\* digit follows it the matcher retries without the sign, at the sign itself,
\* which is no digit
digits_re(s, i) ==
    LET from == IF s[i] \in SignChars THEN i + 1 ELSE i
        e    == GreedyRun(s, from, DigitChars)
    IN  IF e >= from THEN e ELSE NoMatch

\* r'\[.+?\]': the bracket pattern with a lazy quantifier
tags_lazy(s, i) ==
    IF s[i] = "[" /\ i + 1 <= Len(s) /\ s[i + 1] \in DotChars
    THEN LazyDotUntil(s, i + 2, "]")
    ELSE NoMatch

\* tags_re = r'\[.+\]': `.+` runs to the end of the line and backtracks to
\* the last `]` that leaves it at least one character
tags_re(s, i) ==
    IF s[i] = "["
    THEN BacktrackTo(s, GreedyRun(s, i + 1, DotChars), i + 2, "]")
    ELSE NoMatch

\* the alternatives in the order they are joined with '|'
Alternatives(s, i) ==
    <<html_re(s, i), latex_re(s, i), newline_re(s, i),
      user_re(s, i), digits_re(s, i), tags_re(s, i)>>

\* combined_re at position i: the first alternative that matches wins
combined_re(s, i) ==
    LET alts == Alternatives(s, i)
        hits == {n \in DOMAIN alts : alts[n] # NoMatch}
    IN  IF hits = {} THEN NoMatch
        ELSE alts[CHOOSE n \in hits : \A m \in hits : n <= m]

\* combined_re.finditer(s) from position pos: the matches as <<first, last>>
RECURSIVE finditer(_, _)
finditer(s, pos) ==
    IF pos > Len(s) THEN <<>>
    ELSE LET e == combined_re(s, pos)
         IN  IF e = NoMatch THEN finditer(s, pos + 1)
             ELSE <<(<<pos, e>>)>> \o finditer(s, e + 1)

\* combined_re.sub('', s) from position pos: characters outside a match are
\* copied, a match is skipped and the scan resumes after it
RECURSIVE re_sub(_, _)
re_sub(s, pos) ==
    IF pos > Len(s) THEN <<>>
    ELSE LET e == combined_re(s, pos)
         IN  IF e = NoMatch THEN <<s[pos]>> \o re_sub(s, pos + 1)
             ELSE re_sub(s, e + 1)

\* ------------------------------------------------------------------------
\* str.lower()
\* ------------------------------------------------------------------------

\* the lowercase mapping of one character: a text, since U+0130 maps to two
\* characters.  The lowering of capital sigma, which depends on the letters
\* around it, is left out: Chars holds no sigma.
lower_char(c) ==
    IF c \in Range(UpperLetters)
    THEN <<LowerLetters[CHOOSE n \in DOMAIN UpperLetters : UpperLetters[n] = c]>>
    ELSE IF c = "U+0130" THEN <<"i", "U+0307">>
    ELSE <<c>>

RECURSIVE str_lower(_)
str_lower(s) ==
    IF s = <<>> THEN <<>> ELSE lower_char(Head(s)) \o str_lower(Tail(s))

\* ------------------------------------------------------------------------
\* Values, rows and DataFrames
\* ------------------------------------------------------------------------

\* a cell of a nullable column: pd.NA, or a value
NA == [isna |-> TRUE, val |-> <<>>]

Str(s) == [isna |-> FALSE, val |-> s]

Int64(n) == [isna |-> FALSE, val |-> n]

NAInt == [isna |-> TRUE, val |-> 0]

\* a DataFrame: its column names and its rows in index order, each row a
\* function from column name to cell.  Of the three identifier columns only
\* post_id is kept; parent_id and comment_id are read and carried the same way.
DataFrame(columns, rows) == [columns |-> columns, rows |-> rows]

NoFrame == DataFrame({}, <<>>)

\* df[name] / df.name: the column as a Series
column(df, name) == [i \in DOMAIN df.rows |-> df.rows[i][name]]

\* an assign that drops the rows whose new value is missing
assign_dropna(df, name, series) ==
    LET kept == {i \in DOMAIN df.rows : ~series[i].isna}
        nth(n) == CHOOSE i \in kept : Cardinality({j \in kept : j < i}) = n - 1
    IN  DataFrame(df.columns \cup {name},
                  [n \in 1..Cardinality(kept) |->
                      (name :> series[nth(n)]) @@ df.rows[nth(n)]])

\* df.assign(name=series): a copy of df with the column added or replaced; the
\* row index is the one of df
assign(df, name, series) ==
    DataFrame(df.columns \cup {name},
              [i \in DOMAIN df.rows |-> (name :> series[i]) @@ df.rows[i]])

\* what a call gives back: a DataFrame, or the exception it raises
Return(df) == [raised |-> "none", df |-> df]

Raise(exception) == [raised |-> exception, df |-> NoFrame]

\* ------------------------------------------------------------------------
\* load_data
\* ------------------------------------------------------------------------

DigitSeq == <<"0", "1", "2", "3", "4", "5", "6", "7", "8", "9">>

DigitValue(c) == (CHOOSE n \in DOMAIN DigitSeq : DigitSeq[n] = c) - 1

RECURSIVE ParseInt(_)
ParseInt(field) ==
    IF field = <<>> THEN 0
    ELSE 10 * ParseInt(SubSeq(field, 1, Len(field) - 1))
            + DigitValue(field[Len(field)])

\* the fields read_csv takes for missing values (its default na_values; the
\* empty field and "NA" stand for the list)
NaFields == {<<>>, <<"N", "A">>}

IsIntField(field) == \A k \in DOMAIN field : field[k] \in DigitChars

\* nrows=None
NoLimit == [given |-> FALSE, n |-> 0]

Limit(n) == [given |-> TRUE, n |-> n]

\* a file on disk: absent, or delimited text with a header and data rows,
\* every field a text
NoFile == [exists |-> FALSE, columns |-> {}, rows |-> <<>>]

CsvFile(columns, rows) == [exists |-> TRUE, columns |-> columns, rows |-> rows]

\* the dtype= conversions of read_csv, column by column
read_field(name, field) ==
    IF name = "post_id"
    THEN IF field \in NaFields THEN NAInt ELSE Int64(ParseInt(field))
    ELSE IF field \in NaFields THEN NA ELSE Str(field)

load_data(file, nrows) ==
    IF ~file.exists THEN Raise("FileNotFoundError")
    ELSE LET n    == IF nrows.given /\ nrows.n < Len(file.rows)
                     THEN nrows.n ELSE Len(file.rows)
             read == SubSeq(file.rows, 1, n)
             bad  == {i \in DOMAIN read :
                        /\ "post_id" \in file.columns
                        /\ read[i]["post_id"] \notin NaFields
                        /\ ~IsIntField(read[i]["post_id"])}
         IN  IF bad # {} THEN Raise("ValueError")
             ELSE Return(DataFrame(file.columns,
                     [i \in DOMAIN read |->
                        [c \in file.columns |-> read_field(c, read[i][c])]]))

\* ------------------------------------------------------------------------
\* lowercase and replace_text
\* ------------------------------------------------------------------------

\* a lowercase that fills missing values with the empty text first
series_str_lower_fillna(series) ==
    [i \in DOMAIN series |->
        Str(str_lower(IF series[i].isna THEN <<>> ELSE series[i].val))]

\* Series.str.lower(): a missing value stays missing
series_str_lower(series) ==
    [i \in DOMAIN series |->
        IF series[i].isna THEN NA ELSE Str(str_lower(series[i].val))]

\* Series.str.replace(combined_re, ''): a missing value stays missing
series_str_replace(series) ==
    [i \in DOMAIN series |->
        IF series[i].isna THEN NA ELSE Str(re_sub(series[i].val, 1))]

\* x.text on a frame without that column
HasText(df) == "text" \in df.columns

lowercase(df) ==
    IF ~HasText(df) THEN Raise("AttributeError")
    ELSE Return(assign(df, "text", series_str_lower(column(df, "text"))))

replace_text(df) ==
    IF ~HasText(df) THEN Raise("AttributeError")
    ELSE Return(assign(df, "text", series_str_replace(column(df, "text"))))

\* ------------------------------------------------------------------------
\* tokenize and the tokenizers handed to it
\* ------------------------------------------------------------------------

\* a scan that cuts s into tokens: characters of `glue` join into one token,
\* whitespace separates and is dropped, any other character is a token
RECURSIVE Scan(_, _, _, _)
Scan(s, k, glue, token) ==
    LET flush == IF token = <<>> THEN <<>> ELSE <<token>>
    IN  IF k > Len(s) THEN flush
        ELSE IF s[k] \in glue THEN Scan(s, k + 1, glue, Append(token, s[k]))
        ELSE flush
                \o (IF s[k] \in Whitespace THEN <<>> ELSE <<(<<s[k]>>)>>)
                \o Scan(s, k + 1, glue, <<>>)

Tokens(val) == [raised |-> "none", val |-> val]

TokenizerRaises(exception) == [raised |-> exception, val |-> <<>>]

\* nltk's word_tokenize, reduced to what the pipeline relies on: words are
\* runs of word characters, whitespace separates, a punctuation character is a
\* token of its own.  It raises TypeError on a value that is no string.
word_tokenize(cell) ==
    IF cell.isna THEN TokenizerRaises("TypeError")
    ELSE Tokens(Scan(cell.val, 1, WordChars, <<>>))

\* str.split: whitespace-separated words
str_split(cell) ==
    IF cell.isna THEN TokenizerRaises("TypeError")
    ELSE Tokens(Scan(cell.val, 1, Chars \ Whitespace, <<>>))

\* list: one token per character
char_list(cell) ==
    IF cell.isna THEN TokenizerRaises("TypeError")
    ELSE Tokens([k \in DOMAIN cell.val |-> <<cell.val[k]>>])

\* lambda t: [] if t is pd.NA else t.split()
null_safe_split(cell) ==
    IF cell.isna THEN Tokens(<<>>) ELSE str_split(cell)

Tokenizers == {"word_tokenize", "str.split", "list", "null_safe_split"}

\* tokenizer(value)
Call(tokenizer, cell) ==
    CASE tokenizer = "word_tokenize"   -> word_tokenize(cell)
      [] tokenizer = "str.split"       -> str_split(cell)
      [] tokenizer = "list"            -> char_list(cell)
      [] tokenizer = "null_safe_split" -> null_safe_split(cell)

\* Series.apply(tokenizer): the function is called on every value, missing
\* ones included, in index order; the first exception ends the call
series_apply(series, tokenizer) ==
    LET results == [i \in DOMAIN series |-> Call(tokenizer, series[i])]
        failed  == {i \in DOMAIN series : results[i].raised # "none"}
    IN  [raised |-> IF failed = {} THEN "none"
                    ELSE results[CHOOSE i \in failed :
                                    \A j \in failed : i <= j].raised,
         val    |-> [i \in DOMAIN series |-> results[i].val]]

tokenize(df, tokenizer) ==
    IF ~HasText(df) THEN Raise("AttributeError")
    ELSE LET applied == series_apply(column(df, "text"), tokenizer)
         IN  IF applied.raised # "none" THEN Raise(applied.raised)
             ELSE Return(assign(df, "tokens", applied.val))

\* ------------------------------------------------------------------------
\* DataFrame.to_csv(index=False)
\* ------------------------------------------------------------------------

RECURSIVE IntText(_)
IntText(n) ==
    IF n < 10 THEN <<DigitSeq[n + 1]>>
    ELSE IntText(n \div 10) \o <<DigitSeq[(n % 10) + 1]>>

\* repr of a list of strings, as to_csv writes an object cell
RECURSIVE ReprItems(_)
ReprItems(tokens) ==
    IF tokens = <<>> THEN <<>>
    ELSE <<"'">> \o Head(tokens) \o <<"'">>
            \o (IF Len(tokens) > 1 THEN <<",", " ">> ELSE <<>>)
            \o ReprItems(Tail(tokens))

\* one field of the written file: a missing value is written empty
csv_field(name, cell) ==
    IF name = "tokens" THEN <<"[">> \o ReprItems(cell) \o <<"]">>
    ELSE IF cell.isna THEN <<>>
    ELSE IF name = "post_id" THEN IntText(cell.val)
    ELSE cell.val

\* the header and one line per row, no index column
to_csv(df) ==
    CsvFile(df.columns,
            [i \in DOMAIN df.rows |->
                [c \in df.columns |-> csv_field(c, df.rows[i][c])]])

\* ------------------------------------------------------------------------
\* State
\* ------------------------------------------------------------------------

VARIABLES
    disk,    \* the input file stackexchange_812k.csv.gz
    pc,      \* where the script stands, or "harness" when the stage
             \* functions are called directly
    frames,  \* every DataFrame object created so far, oldest first
    calls,   \* the calls made so far, in order
    err,     \* the exception that reached the caller, "none" when none did
    out      \* the output file cleaned.csv

vars == <<disk, pc, frames, calls, err, out>>

\* the frame the last call returned
Current == frames[Len(frames)]

Called(fn) == \E k \in DOMAIN calls : calls[k].fn = fn

\* the stage sets the column on the frame it was given and returns it
store_inplace(fs, arg, df) ==
    Append([k \in DOMAIN fs |-> IF k = arg THEN df ELSE fs[k]], df)

\* a call returned a new DataFrame object; the objects that existed before
\* are left as they were
store(fs, arg, df) == Append(fs, df)

\* the bookkeeping of one call of a stage function on the frame numbered arg
Record(fn, tokenizer, arg, result) ==
    /\ calls' = Append(calls,
                  [fn        |-> fn,
                   tokenizer |-> tokenizer,
                   arg       |-> arg,
                   raised    |-> result.raised,
                   ret       |-> IF result.raised = "none"
                                 THEN Len(frames) + 1 ELSE 0])
    /\ frames' = IF result.raised = "none"
                 THEN store(frames, arg, result.df) ELSE frames
    /\ err' = result.raised

\* ------------------------------------------------------------------------
\* The script: preprocess('stackexchange_812k.csv.gz'), then to_csv
\* ------------------------------------------------------------------------

\* the pipe chain with replace_text before lowercase
preprocess_swapped == <<"load_data", "replace_text", "lowercase", "tokenize">>

\* the stages of preprocess in the order of the pipe chain
preprocess == <<"load_data", "lowercase", "replace_text", "tokenize">>

\* what runs after a stage has returned: the next stage of preprocess, and
\* after the last one the to_csv of the entry point
StageAfter(fn) ==
    LET k == CHOOSE n \in DOMAIN preprocess : preprocess[n] = fn
    IN  IF k < Len(preprocess) THEN preprocess[k + 1] ELSE "to_csv"

\* a stage of the script: an exception is not caught anywhere, so it ends
\* preprocess and the script
Step(fn, tokenizer, arg, result) ==
    /\ Record(fn, tokenizer, arg, result)
    /\ pc' = IF result.raised = "none" THEN StageAfter(fn) ELSE "raised"
    /\ UNCHANGED <<disk, out>>

LoadData ==
    /\ pc = "load_data"
    /\ Step("load_data", "-", 0, load_data(disk, NoLimit))

Lowercase ==
    /\ pc = "lowercase"
    /\ Step("lowercase", "-", Len(frames), lowercase(Current))

ReplaceText ==
    /\ pc = "replace_text"
    /\ Step("replace_text", "-", Len(frames), replace_text(Current))

Tokenize ==
    /\ pc = "tokenize"
    /\ Step("tokenize", "word_tokenize", Len(frames),
            tokenize(Current, "word_tokenize"))

\* a to_csv that also runs when preprocess raised, on the last frame made
ToCsvAnyway ==
    /\ pc \in {"to_csv", "raised"}
    /\ frames # <<>>
    /\ out' = to_csv(Current)
    /\ calls' = Append(calls,
                  [fn |-> "to_csv", tokenizer |-> "-", arg |-> Len(frames),
                   raised |-> "none", ret |-> 0])
    /\ pc' = "exit"
    /\ UNCHANGED <<disk, frames, err>>

ToCsv ==
    /\ pc = "to_csv"
    /\ out' = to_csv(Current)
    /\ calls' = Append(calls,
                  [fn |-> "to_csv", tokenizer |-> "-", arg |-> Len(frames),
                   raised |-> "none", ret |-> 0])
    /\ pc' = "exit"
    /\ UNCHANGED <<disk, frames, err>>

\* ------------------------------------------------------------------------
\* The stage functions called directly, each at most once, in any order
\* ------------------------------------------------------------------------

Direct(fn, tokenizer, result) ==
    /\ Record(fn, tokenizer, Len(frames), result)
    /\ UNCHANGED <<disk, pc, out>>

\* a direct call is possible while no earlier call has raised
CanCall(fn) == pc = "harness" /\ err = "none" /\ ~Called(fn)

CallLowercase ==
    /\ CanCall("lowercase")
    /\ Direct("lowercase", "-", lowercase(Current))

CallReplaceText ==
    /\ CanCall("replace_text")
    /\ Direct("replace_text", "-", replace_text(Current))

CallTokenize ==
    /\ CanCall("tokenize")
    /\ \E tokenizer \in Tokenizers :
          Direct("tokenize", tokenizer, tokenize(Current, tokenizer))

\* ------------------------------------------------------------------------
\* Inputs
\* ------------------------------------------------------------------------

\* the texts of length at most n over an alphabet
Strings(alphabet, n) == UNION {[1..k -> alphabet] : k \in 0..n}

RECURSIVE Flatten(_)
Flatten(parts) ==
    IF parts = <<>> THEN <<>> ELSE Head(parts) \o Flatten(Tail(parts))

\* one character of every class the patterns tell apart, and a capital
Alphabet == {"<", ">", "$", Newline, "@", "a", "A", "1", "+", "[", "]", " "}

\* the characters whose lowercase form matters to \w
CaseAlphabet == {"@", "a", "A", "U+0130", " "}

\* texts with several bracketed spans
BracketParts ==
    {<<"[", "a", "]">>, <<"<", "[", "a", ">">>, <<"[">>, <<"]">>, <<"a">>,
     <<Newline>>}

ExHello ==
    <<"H", "e", "l", "l", "o", " ", "<", "b", ">", "w", "o", "r", "l", "d",
      "<", "/", "b", ">">>

ExQuestion ==
    <<"<", "p", ">", "I", "s", " ", "3", " ", ">", " ", "2", "?", "<", "/",
      "p", ">">>

ExAnswer == <<"@", "b", "o", "b", ":", " ", "$", "x", "=", "1", "$">>

ExRefs ==
    <<"s", "e", "e", " ", "[", "r", "e", "f", "1", "]", "[", "r", "e", "f",
      "2", "]", " ", "h", "e", "r", "e">>

Examples == {ExHello, ExQuestion, ExAnswer, ExRefs}

Texts ==
    Strings(Alphabet, MaxLen) \cup Strings(CaseAlphabet, MaxLen)
        \cup {Flatten(parts) : parts \in Strings(BracketParts, MaxParts)}
        \cup Examples

Columns == {"post_id", "text", "category"}

Categories == <<"q", "a">>

\* row i of a frame: the identifier is the row's position in the input, and
\* the categories alternate
Row(i, cell) ==
    [post_id  |-> Int64(i),
     text     |-> cell,
     category |-> Str(<<Categories[((i - 1) % Len(Categories)) + 1]>>)]

FrameOf(cells) == DataFrame(Columns, [i \in DOMAIN cells |-> Row(i, cells[i])])

\* a frame that never had a text column
WithoutText(df) ==
    DataFrame(df.columns \ {"text"},
              [i \in DOMAIN df.rows |->
                 [c \in df.columns \ {"text"} |-> df.rows[i][c]]])

StageCells ==
    {NA, Str(<<>>), Str(<<"A", "1", " ", "b">>),
     Str(<<"@", "a", " ", "<", "B", ">", Newline>>),
     Str(<<"H", "i", ",", " ", "x", "!">>)}

StageFrames ==
    {FrameOf(cells) : cells \in Strings(StageCells, MaxRows)}
        \cup {WithoutText(FrameOf(<<NA>>))}

\* the fields of a data line of the input file
Line(i, field) ==
    [post_id  |-> IntText(i),
     text     |-> field,
     category |-> <<Categories[((i - 1) % Len(Categories)) + 1]>>]

FileOf(fields) == CsvFile(Columns, [i \in DOMAIN fields |-> Line(i, fields[i])])

FileTexts ==
    {<<>>, <<"N", "A">>, <<"A", "1", " ", "b">>,
     <<"@", "a", " ", "<", "B", ">", Newline>>, <<"H", "i", ",", " ", "x", "!">>}

\* the two-row table of the end-to-end scenario
ScenarioFile == FileOf(<<ExQuestion, ExAnswer>>)

\* a file whose identifier column holds a field that is no integer
BadIdFile ==
    CsvFile(Columns,
            <<[post_id |-> <<"x">>, text |-> <<"a">>, category |-> <<"q">>]>>)

\* a file without a text column
NoTextFile ==
    CsvFile(Columns \ {"text"},
            <<[post_id |-> <<"1">>, category |-> <<"q">>]>>)

Files ==
    {FileOf(fields) : fields \in Strings(FileTexts, MaxRows)}
        \cup {ScenarioFile, BadIdFile, NoTextFile, NoFile}

\* ------------------------------------------------------------------------
\* Specifications
\* ------------------------------------------------------------------------

\* the script run on any of the input files
Init ==
    /\ disk \in Files
    /\ pc = "load_data"
    /\ frames = <<>>
    /\ calls = <<>>
    /\ err = "none"
    /\ out = NoFile

Next == LoadData \/ Lowercase \/ ReplaceText \/ Tokenize \/ ToCsv

Spec == Init /\ [][Next]_vars

\* the stage functions called on a frame; used by both harnesses
InitDirect(inputs) ==
    /\ disk = NoFile
    /\ pc = "harness"
    /\ frames \in {<<df>> : df \in inputs}
    /\ calls = <<>>
    /\ err = "none"
    /\ out = NoFile

\* lowercase and replace_text on one-row frames holding any of the texts
InitText == InitDirect({FrameOf(<<Str(t)>>) : t \in Texts})

NextText == CallLowercase \/ CallReplaceText

SpecText == InitText /\ [][NextText]_vars

\* the three stage functions on small frames, missing values included
InitStages == InitDirect(StageFrames)

NextStages == CallLowercase \/ CallReplaceText \/ CallTokenize

SpecStages == InitStages /\ [][NextStages]_vars

\* ------------------------------------------------------------------------
\* What the properties read from the call log
\* ------------------------------------------------------------------------

\* the calls of fn that returned a frame
ReturnedCalls(fn) ==
    {k \in DOMAIN calls : calls[k].fn = fn /\ calls[k].raised = "none"}

\* the text column a call was given, and the one it returned
TextIn(k) == column(frames[calls[k].arg], "text")

TextOut(k) == column(frames[calls[k].ret], "text")

\* the characters of s at the positions in keep, in their order
RECURSIVE Keep(_, _, _)
Keep(s, k, keep) ==
    IF k > Len(s) THEN <<>>
    ELSE (IF k \in keep THEN <<s[k]>> ELSE <<>>) \o Keep(s, k + 1, keep)

\* ------------------------------------------------------------------------
\* The six patterns as the specification words them: which intervals i..j
\* of a text s are a match starting at i.  `any` is the set of characters
\* the words "any characters" stand for.
\* ------------------------------------------------------------------------

\* `<`, any characters, up to the next `>`
IsTag(s, i, j, any) ==
    /\ s[i] = "<" /\ j > i /\ s[j] = ">"
    /\ \A k \in (i + 1)..(j - 1) : s[k] # ">" /\ s[k] \in any

\* `$`, any characters, up to the next `$`
IsMath(s, i, j, any) ==
    /\ s[i] = "$" /\ j > i /\ s[j] = "$"
    /\ \A k \in (i + 1)..(j - 1) : s[k] # "$" /\ s[k] \in any

IsNewline(s, i, j) == s[i] = Newline /\ j = i

\* `@` and all the word characters that follow, at least one
IsMention(s, i, j) ==
    /\ s[i] = "@" /\ j > i
    /\ \A k \in (i + 1)..j : s[k] \in WordChars
    /\ (j = Len(s) \/ s[j + 1] \notin WordChars)

\* an optional sign and all the digits that follow, at least one
IsNumber(s, i, j) ==
    LET d == IF s[i] \in SignChars THEN i + 1 ELSE i
    IN  /\ j >= d
        /\ \A k \in d..j : s[k] \in DigitChars
        /\ (j = Len(s) \/ s[j + 1] \notin DigitChars)

\* `[`, one or more of any characters, `]`
Bracketed(s, i, j, any) ==
    /\ s[i] = "[" /\ j >= i + 2 /\ s[j] = "]"
    /\ \A k \in (i + 1)..(j - 1) : s[k] \in any

\* ... greedy: up to the last `]` that can close it
IsBracket(s, i, j, any) ==
    /\ Bracketed(s, i, j, any)
    /\ \A l \in (j + 1)..Len(s) : ~Bracketed(s, i, l, any)

IsMatch(s, i, j, any) ==
    \/ IsTag(s, i, j, any) \/ IsMath(s, i, j, any) \/ IsNewline(s, i, j)
    \/ IsMention(s, i, j) \/ IsNumber(s, i, j) \/ IsBracket(s, i, j, any)

\* one left-to-right scan from pos: at the leftmost position where a pattern
\* matches the match is deleted and the scan goes on after it; every other
\* character is kept
RECURSIVE ScanDelete(_, _, _)
ScanDelete(s, pos, any) ==
    IF pos > Len(s) THEN <<>>
    ELSE LET ends == {j \in pos..Len(s) : IsMatch(s, pos, j, any)}
         IN  IF ends = {} THEN <<s[pos]>> \o ScanDelete(s, pos + 1, any)
             ELSE ScanDelete(s, (CHOOSE j \in ends : TRUE) + 1, any)

ExHelloOut == <<"H", "e", "l", "l", "o", " ", "w", "o", "r", "l", "d">>

\* replace_text returned, and row i of what it was given holds text s
Stripped(k, i, s) ==
    /\ k \in ReturnedCalls("replace_text")
    /\ i \in DOMAIN TextIn(k)
    /\ TextIn(k)[i] = Str(s)

\* every non-null text replace_text was given comes back as ScanDelete of it
StripIsScan(any) ==
    \A k \in ReturnedCalls("replace_text") : \A i \in DOMAIN TextIn(k) :
        ~TextIn(k)[i].isna =>
            TextOut(k)[i] = Str(ScanDelete(TextIn(k)[i].val, 1, any))

\* C1 as stated: replace_text returns the text left by one left-to-right scan
\* that deletes the non-overlapping leftmost matches of the six patterns, where
\* a tag, a math span and a bracket span may hold any characters at all.
C1_AsStated == StripIsScan(Chars)

\* C1 as amended: replace_text returns the text left by one left-to-right scan
\* that deletes the non-overlapping leftmost matches of the six patterns, where
\* a tag, a math span and a bracket span hold any characters except a newline;
\* "Hello <b>world</b>" becomes "Hello world".
C1_StripIsLeftmostScan ==
    /\ StripIsScan(DotChars)
    /\ \A k \in DOMAIN calls : \A i \in DOMAIN frames[1].rows :
          Stripped(k, i, ExHello) => TextOut(k)[i] = Str(ExHelloOut)

\* replace_text has run on "Hello <b>world</b>" and gave "Hello world"
C1_Witness ==
    \E k \in DOMAIN calls :
        Stripped(k, 1, ExHello) /\ TextOut(k)[1] = Str(ExHelloOut)

\* ------------------------------------------------------------------------

\* the positions of s that hold c
Positions(s, c) == {k \in DOMAIN s : s[k] = c}

Min(S) == CHOOSE x \in S : \A y \in S : x <= y

Max(S) == CHOOSE x \in S : \A y \in S : x >= y

\* a bracketed span: `[`, one or more characters that are no bracket, `]`
Span(s, i, j) ==
    /\ j >= i + 2
    /\ s[i] = "[" /\ s[j] = "]"
    /\ \A k \in (i + 1)..(j - 1) : s[k] \notin {"[", "]"}

\* two spans, the second after the first
SeveralSpans(s) ==
    \E i1 \in Positions(s, "[") : \E j1 \in Positions(s, "]") :
        /\ Span(s, i1, j1)
        /\ \E i2 \in Positions(s, "[") : \E j2 \in Positions(s, "]") :
              j1 < i2 /\ Span(s, i2, j2)

\* the positions no match covers
Outside(s, matches) ==
    {k \in DOMAIN s : \A n \in DOMAIN matches :
        k < matches[n][1] \/ k > matches[n][2]}

\* the matches of the scan hold one that runs from the first `[` of s to its
\* last `]`, and the text returned is s without the matches
Collapsed(s, result) ==
    LET matches == finditer(s, 1)
    IN  /\ <<Min(Positions(s, "[")), Max(Positions(s, "]"))>> \in Range(matches)
        /\ result = Keep(s, 1, Outside(s, matches))

\* no newline between the first `[` and the last `]`
OnOneLine(s) ==
    \A k \in Min(Positions(s, "["))..Max(Positions(s, "]")) : s[k] # Newline

\* the first `[` lies inside no match that starts before it
FirstBracketFree(s) ==
    LET f == Min(Positions(s, "["))
        matches == finditer(s, 1)
    IN  \A n \in DOMAIN matches : ~(matches[n][1] < f /\ f <= matches[n][2])

ExRefsOut == <<"s", "e", "e", " ", " ", "h", "e", "r", "e">>

\* C3 as stated: a text with several bracketed spans loses one match that runs
\* from its first `[` to its last `]`, with everything between them.
C3_AsStated ==
    \A k \in ReturnedCalls("replace_text") : \A i \in DOMAIN TextIn(k) :
        (~TextIn(k)[i].isna /\ SeveralSpans(TextIn(k)[i].val)) =>
            Collapsed(TextIn(k)[i].val, TextOut(k)[i].val)

\* C3 as amended: a text with several bracketed spans, with no newline between
\* its first `[` and its last `]` and whose first `[` is not inside an earlier
\* match, loses one match that runs from its first `[` to its last `]`, with
\* everything between them; "see [ref1][ref2] here" becomes "see  here".
C3_GreedyBracketsCollapse ==
    /\ \A k \in ReturnedCalls("replace_text") : \A i \in DOMAIN TextIn(k) :
          ( /\ ~TextIn(k)[i].isna
            /\ SeveralSpans(TextIn(k)[i].val)
            /\ OnOneLine(TextIn(k)[i].val)
            /\ FirstBracketFree(TextIn(k)[i].val) ) =>
              Collapsed(TextIn(k)[i].val, TextOut(k)[i].val)
    /\ \A k \in DOMAIN calls : \A i \in DOMAIN frames[1].rows :
          Stripped(k, i, ExRefs) => TextOut(k)[i] = Str(ExRefsOut)

\* replace_text has run on "see [ref1][ref2] here": one match, from the first
\* `[` to the last `]`
C3_Witness ==
    \E k \in DOMAIN calls :
        /\ Stripped(k, 1, ExRefs)
        /\ SeveralSpans(ExRefs)
        /\ finditer(ExRefs, 1) = <<(<<5, 16>>)>>
        /\ TextOut(k)[1] = Str(ExRefsOut)

\* ------------------------------------------------------------------------

HasChar(s, class) == \E k \in DOMAIN s : s[k] \in class

\* C10: the text replace_text returns for a non-null text holds no digit and
\* no newline.  (That it may still hold a match of another pattern, so that a
\* second replace_text would change it, is what C10_Witness reaches.)
C10_NoDigitNoNewline ==
    \A k \in ReturnedCalls("replace_text") : \A i \in DOMAIN TextIn(k) :
        ~TextIn(k)[i].isna =>
            /\ ~TextOut(k)[i].isna
            /\ ~HasChar(TextOut(k)[i].val, DigitChars \cup {Newline})

\* replace_text has deleted a digit or a newline and joined the text on both
\* sides of it into an `@` mention: its result is not a fixed point
C10_Witness ==
    \E k \in ReturnedCalls("replace_text") :
        LET given  == TextIn(k)[1].val
            result == TextOut(k)[1].val
        IN  /\ HasChar(given, DigitChars \cup {Newline})
            /\ \E i \in DOMAIN result : user_re(result, i) # NoMatch
            /\ re_sub(result, 1) # result

\* ------------------------------------------------------------------------

\* both stages have run on the frame; what the other order gives for it
BothOrdersAgree ==
    LET given == column(frames[1], "text")
        other == IF calls[1].fn = "lowercase"
                 THEN series_str_lower(series_str_replace(given))
                 ELSE series_str_replace(series_str_lower(given))
    IN  column(Current, "text") = other

RanBoth ==
    /\ Len(calls) = 2
    /\ {calls[1].fn, calls[2].fn} = {"lowercase", "replace_text"}
    /\ calls[2].raised = "none"

AllAscii(series) ==
    \A i \in DOMAIN series :
        series[i].isna \/ \A k \in DOMAIN series[i].val :
                              series[i].val[k] \in AsciiChars

\* C8 as stated: for every text, replace_text after lowercase gives the same
\* text as lowercase after replace_text.
C8_AsStated == RanBoth => BothOrdersAgree

\* C8 as amended: for every text made of ASCII characters only, replace_text
\* after lowercase gives the same text as lowercase after replace_text.
C8_AsciiOrdersAgree ==
    (RanBoth /\ AllAscii(column(frames[1], "text"))) => BothOrdersAgree

\* lowercase then replace_text has run on an ASCII text with capitals and a
\* match in it
C8_Witness ==
    /\ RanBoth
    /\ calls[1].fn = "lowercase"
    /\ column(frames[1], "text") = <<Str(ExHello)>>
    /\ column(Current, "text") = <<Str(str_lower(ExHelloOut))>>

\* ------------------------------------------------------------------------
\* The script
\* ------------------------------------------------------------------------

ExQuestionStated == <<"i", "s", " ", " ", "2", "?">>

ExQuestionOut == <<"i", "s", " ", " ", ">", " ", "?">>

ExAnswerOut == <<":", " ">>

\* the run on the two-row table does not raise, and once preprocess has
\* returned the frame has the cleaned texts given, a non-empty token list in
\* each row, two rows and the categories q and a
ScenarioYields(cleaned) ==
    disk = ScenarioFile =>
        /\ pc # "raised"
        /\ pc \in {"to_csv", "exit"} =>
              /\ column(Current, "text") = cleaned
              /\ \A i \in DOMAIN Current.rows : Current.rows[i]["tokens"] # <<>>
              /\ Len(Current.rows) = 2
              /\ column(Current, "category") = <<Str(<<"q">>), Str(<<"a">>)>>

\* C2 as stated: the cleaned texts are "is  2?" and ": ".
C2_AsStated == ScenarioYields(<<Str(ExQuestionStated), Str(ExAnswerOut)>>)

\* C2 as amended: for the two-row table with texts "<p>Is 3 > 2?</p>" and
\* "@bob: $x=1$" and categories q and a, the pipeline yields the cleaned texts
\* "is  > ?" and ": ", a non-empty token list for each row, two rows and the
\* categories unchanged.
C2_ScenarioResult == ScenarioYields(<<Str(ExQuestionOut), Str(ExAnswerOut)>>)

\* the script has run to its end on the two-row table
C2_Witness == disk = ScenarioFile /\ pc = "exit" /\ Len(out.rows) = 2

\* ------------------------------------------------------------------------

\* the identifiers and categories of the rows a call was given, as written
\* in a file: for load_data the data lines of the input file
GivenRows(k) ==
    IF calls[k].fn = "load_data"
    THEN [i \in DOMAIN disk.rows |->
            <<disk.rows[i]["post_id"], disk.rows[i]["category"]>>]
    ELSE LET df == frames[calls[k].arg]
         IN  [i \in DOMAIN df.rows |->
                <<csv_field("post_id", df.rows[i]["post_id"]),
                  csv_field("category", df.rows[i]["category"])>>]

ReturnedRows(k) ==
    LET df == frames[calls[k].ret]
    IN  [i \in DOMAIN df.rows |->
            <<csv_field("post_id", df.rows[i]["post_id"]),
              csv_field("category", df.rows[i]["category"])>>]

\* C4: the table a stage of the pipeline returns has as many rows as the
\* stage was given, and they are the same rows in the same order.
C4_RowsKept ==
    \A k \in DOMAIN calls :
        (calls[k].raised = "none" /\ calls[k].fn # "to_csv") =>
            /\ Len(frames[calls[k].ret].rows) = Len(GivenRows(k))
            /\ ReturnedRows(k) = GivenRows(k)

\* the four stages have all returned on a file with several rows
C4_Witness ==
    /\ ReturnedCalls("tokenize") # {}
    /\ Len(disk.rows) >= 2
    /\ Len(Current.rows) = Len(disk.rows)

\* ------------------------------------------------------------------------

\* C5: a run writes the complete output file or nothing.  When a stage raises,
\* that exception is what reaches the caller, no later stage and no to_csv
\* runs, and cleaned.csv does not exist; cleaned.csv exists only after a run
\* without exception, and then holds one line for every data line of the
\* input, with the tokens column.
C5_AllOrNothing ==
    /\ \A k \in DOMAIN calls :
          calls[k].raised # "none" =>
              k = Len(calls) /\ pc = "raised" /\ err = calls[k].raised
    /\ pc = "raised" =>
          /\ out = NoFile
          /\ calls # <<>> /\ calls[Len(calls)].raised # "none"
    /\ out.exists =>
          /\ pc = "exit" /\ err = "none"
          /\ Len(out.rows) = Len(disk.rows)
          /\ out.columns = disk.columns \cup {"tokens"}
    /\ pc = "exit" => out.exists

\* the supplied tokenizer raised on a missing text after three stages had
\* returned, and the script ended without an output file
C5_Witness ==
    /\ pc = "raised"
    /\ Len(calls) = 4
    /\ calls[4].fn = "tokenize" /\ err = "TypeError"
    /\ out = NoFile

\* ------------------------------------------------------------------------

PipelineOrder == <<"load_data", "lowercase", "replace_text", "tokenize", "to_csv">>

\* C6: the calls of a run are load_data, lowercase, replace_text, tokenize and
\* to_csv in that order, each at most once and none after one that raised;
\* each is given the frame the call before it returned; the output file is
\* written from the frame tokenize returned, and a finished run has made all
\* five calls.
C6_FixedOrder ==
    /\ Len(calls) <= Len(PipelineOrder)
    /\ \A k \in DOMAIN calls :
          /\ calls[k].fn = PipelineOrder[k]
          /\ k = 1 => calls[k].arg = 0
          /\ k > 1 => /\ calls[k - 1].raised = "none"
                      /\ calls[k].arg = calls[k - 1].ret
    /\ out.exists =>
          \E k \in ReturnedCalls("tokenize") :
              out = to_csv(frames[calls[k].ret])
    /\ pc = "exit" => Len(calls) = Len(PipelineOrder)

\* a run has made all five calls and written the file
C6_Witness ==
    /\ pc = "exit"
    /\ [k \in DOMAIN calls |-> calls[k].fn] = PipelineOrder
    /\ out.exists

\* ------------------------------------------------------------------------
\* The stage functions on frames with missing values
\* ------------------------------------------------------------------------

\* C7: lowercase and replace_text, given a frame with a text column, do not
\* raise, and every row whose text is null comes back with a null text.
C7_NullStaysNull ==
    \A k \in DOMAIN calls :
        (calls[k].fn \in {"lowercase", "replace_text"}
            /\ HasText(frames[calls[k].arg])) =>
            /\ calls[k].raised = "none"
            /\ \A i \in DOMAIN TextIn(k) :
                  TextIn(k)[i].isna => TextOut(k)[i] = NA

\* both stages have returned on a frame with a null text and another text
C7_Witness ==
    /\ ReturnedCalls("lowercase") # {} /\ ReturnedCalls("replace_text") # {}
    /\ \E i, j \in DOMAIN frames[1].rows :
          /\ frames[1].rows[i]["text"].isna
          /\ ~frames[1].rows[j]["text"].isna
          /\ Current.rows[i]["text"] = NA

\* ------------------------------------------------------------------------

\* C9: the frame tokenize returns is a new one with the rows of the frame it
\* was given, in order, and the column tokens added: in every row tokens is
\* what the supplied tokenizer gives for that row's text, and every other
\* field is as in the frame given, which has no tokens column.
C9_TokenizeAddsTokens ==
    \A k \in ReturnedCalls("tokenize") :
        LET given    == frames[calls[k].arg]
            returned == frames[calls[k].ret]
        IN  /\ calls[k].ret # calls[k].arg
            /\ "tokens" \notin given.columns
            /\ returned.columns = given.columns \cup {"tokens"}
            /\ DOMAIN returned.rows = DOMAIN given.rows
            /\ \A i \in DOMAIN given.rows :
                  LET tokens == Call(calls[k].tokenizer, given.rows[i]["text"])
                  IN  /\ tokens.raised = "none"
                      /\ returned.rows[i]["tokens"] = tokens.val
                      /\ \A c \in given.columns :
                            returned.rows[i][c] = given.rows[i][c]

\* tokenize has returned for a frame of two rows with different texts, one
\* of them with several tokens
C9_Witness ==
    \E k \in ReturnedCalls("tokenize") :
        LET returned == frames[calls[k].ret]
        IN  /\ Len(returned.rows) = 2
            /\ returned.rows[1]["text"] # returned.rows[2]["text"]
            /\ Len(returned.rows[1]["tokens"]) > 1

====
